---- MODULE Spec2Model ----
(***************************************************************************)
(* Model of src/components/CalendarMap.tsx: the CalendarMap component's    *)
(* view state, its mount effect, the date-picker handlers and the fetch    *)
(* cycle fetchCalendarEvents (calendar list, events query, concurrent      *)
(* geocode lookups, filter, commit), plus the render-time deduplication,   *)
(* the module-level API key check, the location flow of the mount effect   *)
(* and the marker press handler.                                           *)
(*                                                                         *)
(* Dates are day numbers.  A fetch cycle is one call of                    *)
(* fetchCalendarEvents; the function is declared in the component body, so *)
(* the startDate / endDate it reads are the constants of the render whose  *)
(* closure it belongs to.                                                  *)
(***************************************************************************)
EXTENDS Integers, Sequences, FiniteSets, TLC

\* ---------------------------------------------------------------- bounds
MaxCycles == 2
MaxEvents == 3
MaxId == 2
MaxPresses == 1

\* ------------------------------------------------------ program constants
Now == 1
DefaultSpanDays == 7
\* the empty event id, falsy on line 169
EmptyId == 0

\* ------------------------------------------------------------- the values
Absent == "<absent>"
\* a geoLocation is a pair <<latitude, longitude>> or null; a lookup not yet
\* settled is Pending
NullGeo == <<>>
Pending == <<"pending">>
\* the selectedDate argument of a picker change event: <<d>> for the date d,
\* <<>> for undefined
Undefined == <<>>
Selected(d) == <<d>>

Addresses == {"Ubud, Bali", "dup"}
Locations == {Absent, ""} \cup Addresses
EventIds == 1 .. MaxId
\* the day the user picks in either picker: tomorrow
PickDays == {Now + 1}
Selections == {Selected(d) : d \in PickDays} \cup {Undefined}

PermissionAlert == <<"Calendar permission is required for this app to work.", "">>
FetchAlertTitle == "Error fetching calendar events:"
UnknownErrorMessage == "An unknown error occurred."
StoreErrorMessage == "store error"

LocationAlert == <<"Location permission is required for this app to work.", "">>
CalendarAppAlert == <<"Unable to open the Calendar app.", "">>

\* the region of useState (lines 23-28), in tenths of a degree
InitialRegion ==
    [latitude |-> -85, longitude |-> 1152, latitudeDelta |-> 1, longitudeDelta |-> 1]

\* the positions Location.getCurrentPositionAsync can return, in tenths of a
\* degree
DevicePositions == {[latitude |-> 100, longitude |-> 200]}

\* the calendar every event of the store belongs to (event.calendarId)
CalendarId == "calendar"

\* Platform.OS
Platforms == {"ios", "android", "web"}
\* Platform.select found no entry for the platform (line 177)
NoUrl == <<>>

\* what a rejected store call throws: an Error with a message, or another value
Thrown == {"Error", "other"}

VARIABLES
    store,            \* the device calendar store: a sequence of events
    calPerm,          \* the OS's calendar permission status
    mountPc,          \* position of the mount effect
    startDate, endDate, showDatePicker, datePickerType,
    calendarEvents,   \* the view state's event list
    cycles,           \* every call of fetchCalendarEvents so far, in start order
    alerts,           \* the alerts raised so far, in order
    lastCommit,       \* index of the cycle that called setCalendarEvents last, 0 if none
    lastDone,         \* index of the cycle that finished last, 0 if none
    apiKey,           \* process.env.GOOGLE_MAPS_API_KEY is set
    geocoderInit,     \* Geocoder.init has been called
    locPerm,          \* the OS's foreground location permission status
    locPc,            \* position of the mount effect's location flow
    region,           \* the view state's map region
    calls,            \* number of calls of each service of expo-location so far
    platform,         \* Platform.OS
    presses,          \* every call of onMarkerPress so far, in order
    dismissed         \* the last step was a picker change event without a date

vars == <<store, calPerm, mountPc, startDate, endDate, showDatePicker,
          datePickerType, calendarEvents, cycles, alerts, lastCommit, lastDone,
          apiKey, geocoderInit, locPerm, locPc, region, calls, platform,
          presses, dismissed>>

\* what the fetch cycles and the pickers never touch
envVars == <<apiKey, geocoderInit, locPerm, region, platform, presses>>
\* what the location flow and the marker presses never touch
calendarVars == <<store, calPerm, mountPc, startDate, endDate, showDatePicker,
                  datePickerType, calendarEvents, cycles, lastCommit, lastDone>>

\* ------------------------------------------------------- pure functions
\* variant: only null / undefined count as no location
HasLocation_NotNull(location) == location # Absent

\* JavaScript truthiness of event.location (line 140): null, undefined and ""
\* are falsy
HasLocation(location) == location # Absent /\ location # ""

\* the first candidate coordinate the geocoder returns for an address
\* (lines 121-123)
Coord(address) ==
    IF address = "Ubud, Bali" THEN <<-8, 115>> ELSE <<1, 2>>

\* Calendar.getEventsAsync(calendarIds, startDate, endDate) over every
\* calendar: the events of the store within [start, end], in store order
InRange(e, start, end) == start <= e.day /\ e.day <= end
GetEvents(start, end) == SelectSeq(store, LAMBDA e : InRange(e, start, end))

\* { ...event, geoLocation } (lines 140-142)
Enrich(e, geo) ==
    [id |-> e.id, location |-> e.location, day |-> e.day, geoLocation |-> geo]

\* geocodedEvents once every lookup of the cycle has settled (lines 138-144)
GeocodedEvents(c) == [i \in 1 .. Len(c.events) |-> Enrich(c.events[i], c.geo[i])]

\* variant: no filter before the commit
EventsWithLocation_KeepAll(es) == es

\* geocodedEvents.filter(event => event.geoLocation) (line 146)
EventsWithLocation(es) == SelectSeq(es, LAMBDA e : e.geoLocation # NullGeo)

\* variant: no deduplication
UniqById_KeepAll(es) == es

\* lodash uniqBy(list, 'id'): the first occurrence of every id, in order
RECURSIVE UniqById(_)
UniqById(es) ==
    IF es = <<>> THEN <<>>
    ELSE LET front == UniqById(SubSeq(es, 1, Len(es) - 1))
             last == es[Len(es)]
         IN IF \E i \in 1 .. Len(front) : front[i].id = last.id
            THEN front ELSE Append(front, last)

\* line 163
uniqueCalendarEvents == UniqById(calendarEvents)

\* the <Marker> elements rendered (lines 202-212)
Markers == SelectSeq(uniqueCalendarEvents, LAMBDA e : e.geoLocation # NullGeo)

\* the initial state of the lookups of a batch: a lookup is issued for every
\* event with a truthy location, no lookup otherwise (lines 139-141)
IssueGeo(events) ==
    [i \in 1 .. Len(events) |->
        IF HasLocation(events[i].location) THEN Pending ELSE NullGeo]
IssueOutcome(events) ==
    [i \in 1 .. Len(events) |->
        IF HasLocation(events[i].location) THEN "pending" ELSE "none"]
IssueLookups(events) ==
    [i \in 1 .. Len(events) |->
        IF HasLocation(events[i].location) THEN 1 ELSE 0]

\* the deep link of an event (lines 168-175): Platform.select has no entry
\* for the web
EventUrl(event) ==
    IF platform = "ios" THEN <<"calshow:", CalendarId, event.id>>
    ELSE IF platform = "android"
         THEN <<"content://com.android.calendar/events/", CalendarId, event.id>>
         ELSE NoUrl

\* the alert of the catch block (lines 149-155)
FetchAlert(thrown) ==
    IF thrown = "Error" THEN <<FetchAlertTitle, StoreErrorMessage>>
                        ELSE <<FetchAlertTitle, UnknownErrorMessage>>

\* ------------------------------------------------------------ the store
\* the event at position i of the store is on every second day from today,
\* so that the selectable date ranges cut different batches out of the store
DayOf(i) == Now + 2 * (i - 1)
AddressOf(i) == IF i % 2 = 1 THEN "Ubud, Bali" ELSE "dup"

\* every store of MaxEvents events: any id, any location
Stores ==
    {s \in [1 .. MaxEvents -> [id : EventIds, location : Locations,
                               day : {DayOf(i) : i \in 1 .. MaxEvents}]] :
        \A i \in 1 .. MaxEvents : s[i].day = DayOf(i)}

\* a store of two events with distinct ids that both carry an address
LiveStore ==
    <<[id |-> 1, location |-> AddressOf(1), day |-> DayOf(1)],
      [id |-> 2, location |-> AddressOf(2), day |-> DayOf(2)]>>

\* a store of one event that carries an address
MarkerStore == <<[id |-> 1, location |-> AddressOf(1), day |-> DayOf(1)]>>

\* a store of two events that both carry an address; the first has an empty
\* id
PressStore ==
    <<[id |-> EmptyId, location |-> AddressOf(1), day |-> DayOf(1)],
      [id |-> 1, location |-> AddressOf(2), day |-> DayOf(2)]>>

\* --------------------------------------------------------------- Init
\* the view state of the first render: useState initial values (lines 19-29)
InitState ==
    /\ startDate = Now
    /\ endDate = Now + DefaultSpanDays
    /\ showDatePicker = FALSE
    /\ datePickerType = "start"
    /\ region = InitialRegion
    /\ calendarEvents = <<>>
    /\ cycles = <<>>
    /\ alerts = <<>>
    /\ lastCommit = 0
    /\ lastDone = 0
    /\ locPc = "waiting"
    /\ presses = <<>>
    /\ dismissed = FALSE

\* state after the first render: the module has loaded with the API key set
\* (lines 11-14), the mount effect has issued
\* Calendar.getCalendarPermissionsAsync (line 91)
InitView ==
    /\ InitState
    /\ apiKey = TRUE
    /\ geocoderInit = TRUE
    /\ calPerm \in {"granted", "denied", "undetermined"}
    /\ mountPc = "check"
    /\ calls = [locCheck |-> 0, locRequest |-> 0, position |-> 0]

\* the calendar side of the component: the location service and the markers
\* are left alone
CalendarOnly == locPerm = "undetermined" /\ platform = "ios"

Init == store = LiveStore /\ InitView /\ CalendarOnly

InitBatch == store \in Stores /\ InitView /\ CalendarOnly

\* ------------------------------------------------------- fetch cycles
\* the call of fetchCalendarEvents up to its first await (lines 130-132):
\* Calendar.getCalendarsAsync is issued; start and end are the startDate and
\* endDate of the calling closure
NewCycle(start, end, origin) ==
    [start |-> start, end |-> end, origin |-> origin, pc |-> "calendars",
     events |-> <<>>, geo |-> <<>>, outcome |-> <<>>, lookups |-> <<>>,
     storeCalls |-> 1, writes |-> 0, alerts |-> 0]

Terminal(c) == c.pc \in {"committed", "failed"}
InFlight == {k \in 1 .. Len(cycles) : ~Terminal(cycles[k])}

\* a store call of a cycle can only succeed with the permission granted
CanSucceed == calPerm = "granted"

\* variant: a failure of the calendar list is swallowed
CalendarsReturn_SwallowsError(k) ==
    /\ k \in 1 .. Len(cycles)
    /\ cycles[k].pc = "calendars"
    /\ \/ /\ CanSucceed
          /\ cycles' = [cycles EXCEPT ![k].pc = "events", ![k].storeCalls = @ + 1]
          /\ UNCHANGED lastDone
       \/ /\ cycles' = [cycles EXCEPT ![k].pc = "failed"]
          /\ lastDone' = k
    /\ UNCHANGED <<store, calPerm, mountPc, startDate, endDate, showDatePicker,
                   datePickerType, calendarEvents, lastCommit, alerts>>
    /\ UNCHANGED <<envVars, locPc, calls>>
    /\ dismissed' = FALSE

\* Calendar.getCalendarsAsync returns (line 132); on success
\* Calendar.getEventsAsync is issued (lines 133-137), on failure the catch
\* block alerts (lines 149-155)
CalendarsReturn(k) ==
    /\ k \in 1 .. Len(cycles)
    /\ cycles[k].pc = "calendars"
    /\ \/ /\ CanSucceed
          /\ cycles' = [cycles EXCEPT ![k].pc = "events", ![k].storeCalls = @ + 1]
          /\ UNCHANGED <<alerts, lastDone>>
       \/ \E thrown \in Thrown :
          /\ cycles' = [cycles EXCEPT ![k].pc = "failed", ![k].alerts = @ + 1]
          /\ alerts' = Append(alerts, FetchAlert(thrown))
          /\ lastDone' = k
    /\ UNCHANGED <<store, calPerm, mountPc, startDate, endDate, showDatePicker,
                   datePickerType, calendarEvents, lastCommit>>
    /\ UNCHANGED <<envVars, locPc, calls>>
    /\ dismissed' = FALSE

\* variant: the catch block also empties the event list
EventsReturn_ClearsList(k) ==
    /\ k \in 1 .. Len(cycles)
    /\ cycles[k].pc = "events"
    /\ \/ /\ CanSucceed
          /\ LET events == GetEvents(cycles[k].start, cycles[k].end)
             IN cycles' = [cycles EXCEPT ![k].pc = "geocoding",
                                         ![k].events = events,
                                         ![k].geo = IssueGeo(events),
                                         ![k].outcome = IssueOutcome(events),
                                         ![k].lookups = IssueLookups(events)]
          /\ UNCHANGED <<alerts, lastDone, calendarEvents>>
       \/ \E thrown \in Thrown :
          /\ cycles' = [cycles EXCEPT ![k].pc = "failed", ![k].alerts = @ + 1]
          /\ alerts' = Append(alerts, FetchAlert(thrown))
          /\ lastDone' = k
          /\ calendarEvents' = <<>>
    /\ UNCHANGED <<store, calPerm, mountPc, startDate, endDate, showDatePicker,
                   datePickerType, lastCommit>>
    /\ UNCHANGED <<envVars, locPc, calls>>
    /\ dismissed' = FALSE

\* Calendar.getEventsAsync returns (lines 133-137); on success every geocode
\* lookup of the batch is issued at once (lines 138-143)
EventsReturn(k) ==
    /\ k \in 1 .. Len(cycles)
    /\ cycles[k].pc = "events"
    /\ \/ /\ CanSucceed
          /\ LET events == GetEvents(cycles[k].start, cycles[k].end)
             IN cycles' = [cycles EXCEPT ![k].pc = "geocoding",
                                         ![k].events = events,
                                         ![k].geo = IssueGeo(events),
                                         ![k].outcome = IssueOutcome(events),
                                         ![k].lookups = IssueLookups(events)]
          /\ UNCHANGED <<alerts, lastDone>>
       \/ \E thrown \in Thrown :
          /\ cycles' = [cycles EXCEPT ![k].pc = "failed", ![k].alerts = @ + 1]
          /\ alerts' = Append(alerts, FetchAlert(thrown))
          /\ lastDone' = k
    /\ UNCHANGED <<store, calPerm, mountPc, startDate, endDate, showDatePicker,
                   datePickerType, calendarEvents, lastCommit>>
    /\ UNCHANGED <<envVars, locPc, calls>>
    /\ dismissed' = FALSE

\* getLocationFromAddress (lines 119-128): the lookup of event i returns a
\* first candidate, returns no candidate (results[0] is undefined, the
\* property access throws) or rejects; the last two are caught and give null
GeocodeOutcomes == {"found", "noMatch", "threw"}
GetLocationFromAddress(address, outcome) ==
    IF outcome = "found" THEN Coord(address) ELSE NullGeo

\* variant: getLocationFromAddress without its try / catch: a failed lookup
\* rejects Promise.all and the cycle ends in the catch block of the fetch
GeocodeReturn_Rejects(k, i) ==
    /\ k \in 1 .. Len(cycles)
    /\ cycles[k].pc = "geocoding"
    /\ i \in 1 .. Len(cycles[k].events)
    /\ cycles[k].geo[i] = Pending
    /\ \E outcome \in GeocodeOutcomes :
          IF outcome = "found"
          THEN /\ cycles' = [cycles EXCEPT
                        ![k].geo[i] = Coord(cycles[k].events[i].location),
                        ![k].outcome[i] = "found"]
               /\ UNCHANGED <<alerts, lastDone>>
          ELSE /\ cycles' = [cycles EXCEPT ![k].pc = "failed",
                                           ![k].alerts = @ + 1,
                                           ![k].outcome[i] = "failed"]
               /\ alerts' = Append(alerts, FetchAlert("Error"))
               /\ lastDone' = k
    /\ UNCHANGED <<store, calPerm, mountPc, startDate, endDate, showDatePicker,
                   datePickerType, calendarEvents, lastCommit>>
    /\ UNCHANGED <<envVars, locPc, calls>>
    /\ dismissed' = FALSE

GeocodeReturn(k, i) ==
    /\ k \in 1 .. Len(cycles)
    /\ cycles[k].pc = "geocoding"
    /\ i \in 1 .. Len(cycles[k].events)
    /\ cycles[k].geo[i] = Pending
    /\ \E outcome \in GeocodeOutcomes :
          cycles' = [cycles EXCEPT
                        ![k].geo[i] = GetLocationFromAddress(
                                          cycles[k].events[i].location, outcome),
                        ![k].outcome[i] =
                            IF outcome = "found" THEN "found" ELSE "failed"]
    /\ UNCHANGED <<store, calPerm, mountPc, startDate, endDate, showDatePicker,
                   datePickerType, calendarEvents, alerts, lastCommit, lastDone>>
    /\ UNCHANGED <<envVars, locPc, calls>>
    /\ dismissed' = FALSE

\* variant: the commit does not wait for every lookup
AllSettled_Any(c) == \E i \in 1 .. Len(c.events) : c.geo[i] # Pending

\* Promise.all has resolved: filter and setCalendarEvents (lines 146-148)
AllSettled(c) == \A i \in 1 .. Len(c.events) : c.geo[i] # Pending

\* variant: the result of a cycle older than the last committed one is dropped
Commit_KeepsNewest(k) ==
    /\ k \in 1 .. Len(cycles)
    /\ cycles[k].pc = "geocoding"
    /\ AllSettled(cycles[k])
    /\ calendarEvents' = IF k >= lastCommit
                         THEN EventsWithLocation(GeocodedEvents(cycles[k]))
                         ELSE calendarEvents
    /\ cycles' = [cycles EXCEPT ![k].pc = "committed", ![k].writes = @ + 1]
    /\ lastCommit' = k
    /\ lastDone' = k
    /\ UNCHANGED <<store, calPerm, mountPc, startDate, endDate, showDatePicker,
                   datePickerType, alerts>>
    /\ UNCHANGED <<envVars, locPc, calls>>
    /\ dismissed' = FALSE

Commit(k) ==
    /\ k \in 1 .. Len(cycles)
    /\ cycles[k].pc = "geocoding"
    /\ AllSettled(cycles[k])
    /\ calendarEvents' = EventsWithLocation(GeocodedEvents(cycles[k]))
    /\ cycles' = [cycles EXCEPT ![k].pc = "committed", ![k].writes = @ + 1]
    /\ lastCommit' = k
    /\ lastDone' = k
    /\ UNCHANGED <<store, calPerm, mountPc, startDate, endDate, showDatePicker,
                   datePickerType, alerts>>
    /\ UNCHANGED <<envVars, locPc, calls>>
    /\ dismissed' = FALSE

\* ------------------------------------------------------- mount effect
\* a cycle may start while fewer than MaxCycles have; one is kept for the
\* mount effect while it can still start its own
Reserved == IF mountPc \in {"check", "request"} THEN 1 ELSE 0
CanStartCycle == Len(cycles) + Reserved < MaxCycles

\* one more call of a service of expo-location
Issue(service) == [calls EXCEPT ![service] = @ + 1]

\* checkAndUpdateEvents (lines 90-97): getCalendarPermissionsAsync returns
CheckAndUpdateEvents ==
    /\ mountPc = "check"
    /\ IF calPerm = "granted"
       THEN /\ cycles' = Append(cycles, NewCycle(Now, Now + DefaultSpanDays, "mount"))
            /\ mountPc' = "fetch"
       ELSE /\ mountPc' = "request"
            /\ UNCHANGED cycles
    /\ UNCHANGED <<store, calPerm, startDate, endDate, showDatePicker,
                   datePickerType, calendarEvents, alerts, lastCommit, lastDone>>
    /\ UNCHANGED <<envVars, locPc, calls>>
    /\ dismissed' = FALSE

\* variant: a denied calendar permission ends the mount effect
RequestCalendarPermission_DenialStops ==
    /\ mountPc = "request"
    /\ \E status \in {"granted", "denied"} :
        /\ calPerm' = status
        /\ IF status = "granted"
           THEN /\ cycles' = Append(cycles, NewCycle(Now, Now + DefaultSpanDays, "mount"))
                /\ mountPc' = "fetch"
                /\ UNCHANGED alerts
           ELSE /\ alerts' = Append(alerts, PermissionAlert)
                /\ mountPc' = "done"
                /\ UNCHANGED cycles
    /\ UNCHANGED <<store, startDate, endDate, showDatePicker,
                   datePickerType, calendarEvents, lastCommit, lastDone>>
    /\ UNCHANGED <<envVars, locPc, calls>>
    /\ dismissed' = FALSE

\* requestCalendarPermission (lines 38-45): requestCalendarPermissionsAsync
\* returns the user's answer
RequestCalendarPermission ==
    /\ mountPc = "request"
    /\ \E status \in {"granted", "denied"} :
        /\ calPerm' = status
        /\ IF status = "granted"
           THEN /\ cycles' = Append(cycles, NewCycle(Now, Now + DefaultSpanDays, "mount"))
                /\ mountPc' = "fetch"
                /\ UNCHANGED <<alerts, locPc, calls>>
           ELSE /\ alerts' = Append(alerts, PermissionAlert)
                /\ mountPc' = "done"
                /\ locPc' = "check"
                /\ calls' = Issue("locCheck")
                /\ UNCHANGED cycles
    /\ UNCHANGED <<store, startDate, endDate, showDatePicker,
                   datePickerType, calendarEvents, lastCommit, lastDone>>
    /\ UNCHANGED envVars
    /\ dismissed' = FALSE

\* variant: the fetch cycle of the mount effect is not awaited
MountFetchDone_NoAwait ==
    /\ mountPc = "fetch"
    /\ mountPc' = "done"
    /\ locPc' = "check"
    /\ calls' = Issue("locCheck")
    /\ UNCHANGED <<store, calPerm, startDate, endDate, showDatePicker,
                   datePickerType, calendarEvents, cycles, alerts, lastCommit, lastDone>>
    /\ UNCHANGED envVars
    /\ dismissed' = FALSE

\* the await of the mount effect's fetch cycle resumes (lines 33, 41, 93)
MountFetchDone ==
    /\ mountPc = "fetch"
    /\ \E k \in 1 .. Len(cycles) :
          cycles[k].origin = "mount" /\ Terminal(cycles[k])
    /\ mountPc' = "done"
    /\ locPc' = "check"
    /\ calls' = Issue("locCheck")
    /\ UNCHANGED <<store, calPerm, startDate, endDate, showDatePicker,
                   datePickerType, calendarEvents, cycles, alerts, lastCommit, lastDone>>
    /\ UNCHANGED envVars
    /\ dismissed' = FALSE

\* ------------------------------------------------------- module load
\* variant: no check of the API key
ModuleLoad_NoCheck ==
    /\ mountPc = "load"
    /\ geocoderInit' = TRUE
    /\ mountPc' = "check"
    /\ UNCHANGED <<store, calPerm, startDate, endDate, showDatePicker,
                   datePickerType, calendarEvents, cycles, alerts, lastCommit,
                   lastDone, apiKey, locPerm, locPc, region, calls, platform,
                   presses>>
    /\ dismissed' = FALSE

\* lines 11-14: the module throws when GOOGLE_MAPS_API_KEY is unset, before
\* Geocoder.init and before the component is defined; App.tsx imports the
\* module, so nothing is rendered.  With the key set the component renders
\* and its mount effect issues Calendar.getCalendarPermissionsAsync.
ModuleLoad ==
    /\ mountPc = "load"
    /\ IF apiKey
       THEN /\ geocoderInit' = TRUE
            /\ mountPc' = "check"
       ELSE /\ mountPc' = "aborted"
            /\ UNCHANGED geocoderInit
    /\ UNCHANGED <<store, calPerm, startDate, endDate, showDatePicker,
                   datePickerType, calendarEvents, cycles, alerts, lastCommit,
                   lastDone, apiKey, locPerm, locPc, region, calls, platform,
                   presses>>
    /\ dismissed' = FALSE

\* the component has been rendered
Mounted == mountPc \notin {"load", "aborted"}

\* ------------------------------------------------------- location flow
\* checkAndUpdateLocation (lines 81-88): getForegroundPermissionsAsync
\* returns
CheckAndUpdateLocation ==
    /\ locPc = "check"
    /\ IF locPerm = "granted"
       THEN /\ locPc' = "position"
            /\ calls' = Issue("position")
       ELSE /\ locPc' = "request"
            /\ calls' = Issue("locRequest")
    /\ UNCHANGED <<calendarVars, envVars, alerts>>
    /\ dismissed' = FALSE

\* variant: the position is queried whatever the answer
RequestLocationPermission_QueriesAnyway ==
    /\ locPc = "request"
    /\ \E status \in {"granted", "denied"} :
        /\ locPerm' = status
        /\ locPc' = "position"
        /\ calls' = Issue("position")
        /\ IF status = "granted"
           THEN UNCHANGED alerts
           ELSE alerts' = Append(alerts, LocationAlert)
    /\ UNCHANGED <<calendarVars, apiKey, geocoderInit, region, platform, presses>>
    /\ dismissed' = FALSE

\* requestLocationPermission (lines 47-54): requestForegroundPermissionsAsync
\* returns the user's answer
RequestLocationPermission ==
    /\ locPc = "request"
    /\ \E status \in {"granted", "denied"} :
        /\ locPerm' = status
        /\ IF status = "granted"
           THEN /\ locPc' = "position"
                /\ calls' = Issue("position")
                /\ UNCHANGED alerts
           ELSE /\ alerts' = Append(alerts, LocationAlert)
                /\ locPc' = "denied"
                /\ UNCHANGED calls
    /\ UNCHANGED <<calendarVars, apiKey, geocoderInit, region, platform, presses>>
    /\ dismissed' = FALSE

\* updateLocation (lines 56-64): getCurrentPositionAsync returns a position,
\* or rejects; nothing catches the rejection (lines 31-36), so the mount
\* effect ends there.  The region read on lines 61-62 is the one of the
\* render the mount effect belongs to, the first.
UpdateLocation ==
    /\ locPc = "position"
    /\ \/ \E location \in DevicePositions :
            /\ region' = [latitude |-> location.latitude,
                          longitude |-> location.longitude,
                          latitudeDelta |-> InitialRegion.latitudeDelta,
                          longitudeDelta |-> InitialRegion.longitudeDelta]
            /\ locPc' = "done"
       \/ /\ locPc' = "rejected"
          /\ UNCHANGED region
    /\ UNCHANGED <<calendarVars, apiKey, geocoderInit, locPerm, platform,
                   presses, calls, alerts>>
    /\ dismissed' = FALSE

\* ------------------------------------------------------- marker press
\* variant: the press centers the map on the event
onMarkerPress_Recenters(m) ==
    /\ Mounted
    /\ m \in 1 .. Len(Markers)
    /\ Len(presses) < MaxPresses
    /\ LET event == Markers[m]
           eventUrl == EventUrl(event)
           asked == event.id # EmptyId /\ eventUrl # NoUrl
       IN /\ presses' = Append(presses,
                 [eventId |-> event.id,
                  url |-> eventUrl,
                  pc |-> IF event.id = EmptyId THEN "ignored"
                         ELSE IF eventUrl = NoUrl THEN "noUrl" ELSE "query",
                  queried |-> IF asked THEN <<eventUrl>> ELSE <<>>,
                  supported |-> <<>>,
                  opened |-> <<>>,
                  alerts |-> 0])
          /\ region' = [region EXCEPT !.latitude = event.geoLocation[1],
                                      !.longitude = event.geoLocation[2]]
    /\ UNCHANGED <<calendarVars, apiKey, geocoderInit, locPerm,
                   platform, locPc, calls, alerts>>
    /\ dismissed' = FALSE

\* onMarkerPress (lines 165-187) up to the await of Linking.canOpenURL; m is
\* the position of the pressed marker
onMarkerPress(m) ==
    /\ Mounted
    /\ m \in 1 .. Len(Markers)
    /\ Len(presses) < MaxPresses
    /\ LET event == Markers[m]
           eventUrl == EventUrl(event)
           asked == event.id # EmptyId /\ eventUrl # NoUrl
       IN presses' = Append(presses,
              [eventId |-> event.id,
               url |-> eventUrl,
               pc |-> IF event.id = EmptyId THEN "ignored"
                      ELSE IF eventUrl = NoUrl THEN "noUrl" ELSE "query",
               queried |-> IF asked THEN <<eventUrl>> ELSE <<>>,
               supported |-> <<>>,
               opened |-> <<>>,
               alerts |-> 0])
    /\ UNCHANGED <<calendarVars, apiKey, geocoderInit, locPerm, region,
                   platform, locPc, calls, alerts>>
    /\ dismissed' = FALSE

\* variant: the link is opened whatever the answer
CanOpenURLReturn_OpensAnyway(n) ==
    /\ n \in 1 .. Len(presses)
    /\ presses[n].pc = "query"
    /\ \E supported \in BOOLEAN :
          presses' = [presses EXCEPT ![n].supported = <<supported>>,
                                     ![n].opened = <<presses[n].url>>,
                                     ![n].pc = "opened"]
    /\ UNCHANGED <<calendarVars, apiKey, geocoderInit, locPerm, region,
                   platform, locPc, calls, alerts>>
    /\ dismissed' = FALSE

\* Linking.canOpenURL(eventUrl) returns or rejects (lines 177-185); on true
\* Linking.openURL(eventUrl) is called
CanOpenURLReturn(n) ==
    /\ n \in 1 .. Len(presses)
    /\ presses[n].pc = "query"
    /\ \/ /\ presses' = [presses EXCEPT ![n].supported = <<TRUE>>,
                                         ![n].opened = <<presses[n].url>>,
                                         ![n].pc = "opened"]
          /\ UNCHANGED alerts
       \/ /\ presses' = [presses EXCEPT ![n].supported = <<FALSE>>,
                                         ![n].alerts = @ + 1,
                                         ![n].pc = "alerted"]
          /\ alerts' = Append(alerts, CalendarAppAlert)
       \/ /\ presses' = [presses EXCEPT ![n].pc = "rejected"]
          /\ UNCHANGED alerts
    /\ UNCHANGED <<calendarVars, apiKey, geocoderInit, locPerm, region,
                   platform, locPc, calls>>
    /\ dismissed' = FALSE

\* ------------------------------------------------------- date pickers
\* toggleDatePicker (lines 158-161)
toggleDatePicker(type) ==
    /\ Mounted
    /\ showDatePicker' = ~showDatePicker
    /\ datePickerType' = type
    /\ UNCHANGED <<store, calPerm, mountPc, startDate, endDate,
                   calendarEvents, cycles, alerts, lastCommit, lastDone>>
    /\ UNCHANGED <<envVars, locPc, calls>>
    /\ dismissed' = FALSE

\* variant: a dismissal puts the start date back to today
onStartDateChange_DismissResets(selectedDate) ==
    /\ showDatePicker /\ datePickerType = "start"
    /\ IF selectedDate # Undefined
       THEN /\ CanStartCycle
            /\ startDate' = selectedDate[1]
            /\ showDatePicker' = FALSE
            /\ cycles' = Append(cycles, NewCycle(startDate, endDate, "start"))
            /\ dismissed' = FALSE
       ELSE /\ showDatePicker' = FALSE
            /\ dismissed' = TRUE
            /\ startDate' = Now
            /\ UNCHANGED cycles
    /\ UNCHANGED <<store, calPerm, mountPc, endDate, datePickerType,
                   calendarEvents, alerts, lastCommit, lastDone>>
    /\ UNCHANGED <<envVars, locPc, calls>>

\* onStartDateChange (lines 99-107); the start picker is rendered only while
\* showDatePicker && datePickerType === 'start' (line 193).  The call of
\* fetchCalendarEvents on line 103 is the function of the current render: it
\* reads that render's startDate and endDate.
onStartDateChange(selectedDate) ==
    /\ showDatePicker /\ datePickerType = "start"
    /\ IF selectedDate # Undefined
       THEN /\ CanStartCycle
            /\ startDate' = selectedDate[1]
            /\ showDatePicker' = FALSE
            /\ cycles' = Append(cycles, NewCycle(startDate, endDate, "start"))
            /\ dismissed' = FALSE
       ELSE /\ showDatePicker' = FALSE
            /\ dismissed' = TRUE
            /\ UNCHANGED <<startDate, cycles>>
    /\ UNCHANGED <<store, calPerm, mountPc, endDate, datePickerType,
                   calendarEvents, alerts, lastCommit, lastDone>>
    /\ UNCHANGED <<envVars, locPc, calls>>

\* variant: every change event fetches, with or without a date
onEndDateChange_AlwaysFetches(selectedDate) ==
    /\ showDatePicker /\ datePickerType = "end"
    /\ CanStartCycle
    /\ IF selectedDate # Undefined
       THEN endDate' = selectedDate[1]
       ELSE UNCHANGED endDate
    /\ showDatePicker' = FALSE
    /\ cycles' = Append(cycles, NewCycle(startDate, endDate, "end"))
    /\ dismissed' = (selectedDate = Undefined)
    /\ UNCHANGED <<store, calPerm, mountPc, startDate, datePickerType,
                   calendarEvents, alerts, lastCommit, lastDone>>
    /\ UNCHANGED <<envVars, locPc, calls>>

\* onEndDateChange (lines 109-117), rendered while showDatePicker &&
\* datePickerType === 'end' (line 197)
onEndDateChange(selectedDate) ==
    /\ showDatePicker /\ datePickerType = "end"
    /\ IF selectedDate # Undefined
       THEN /\ CanStartCycle
            /\ endDate' = selectedDate[1]
            /\ showDatePicker' = FALSE
            /\ cycles' = Append(cycles, NewCycle(startDate, endDate, "end"))
            /\ dismissed' = FALSE
       ELSE /\ showDatePicker' = FALSE
            /\ dismissed' = TRUE
            /\ UNCHANGED <<endDate, cycles>>
    /\ UNCHANGED <<store, calPerm, mountPc, startDate, datePickerType,
                   calendarEvents, alerts, lastCommit, lastDone>>
    /\ UNCHANGED <<envVars, locPc, calls>>

\* ------------------------------------------------------- specification
Next ==
    \/ CheckAndUpdateEvents
    \/ RequestCalendarPermission
    \/ MountFetchDone
    \/ \E type \in {"start", "end"} : toggleDatePicker(type)
    \/ \E selectedDate \in Selections : onStartDateChange(selectedDate)
    \/ \E selectedDate \in Selections : onEndDateChange(selectedDate)
    \/ \E k \in 1 .. MaxCycles : CalendarsReturn(k)
    \/ \E k \in 1 .. MaxCycles : EventsReturn(k)
    \/ \E k \in 1 .. MaxCycles, i \in 1 .. MaxEvents : GeocodeReturn(k, i)
    \/ \E k \in 1 .. MaxCycles : Commit(k)

Spec == Init /\ [][Next]_vars

\* the component left alone after mount (no picker is touched), over every
\* store: the mount effect and its one fetch cycle
NextBatch ==
    \/ CheckAndUpdateEvents
    \/ RequestCalendarPermission
    \/ MountFetchDone
    \/ \E k \in 1 .. MaxCycles : CalendarsReturn(k)
    \/ \E k \in 1 .. MaxCycles : EventsReturn(k)
    \/ \E k \in 1 .. MaxCycles, i \in 1 .. MaxEvents : GeocodeReturn(k, i)
    \/ \E k \in 1 .. MaxCycles : Commit(k)

SpecBatch == InitBatch /\ [][NextBatch]_vars

\* the program from the load of the module on, whatever the API key and the
\* two permissions: the whole mount effect (calendar flow, then location
\* flow) while the user works the start picker
InitLoad ==
    /\ InitState
    /\ store = LiveStore
    /\ apiKey \in BOOLEAN
    /\ geocoderInit = FALSE
    /\ mountPc = "load"
    /\ calPerm \in {"granted", "denied", "undetermined"}
    /\ locPerm \in {"granted", "denied", "undetermined"}
    /\ calls = [locCheck |-> 0, locRequest |-> 0, position |-> 0]
    /\ platform = "ios"

NextMount ==
    \/ ModuleLoad
    \/ CheckAndUpdateEvents
    \/ RequestCalendarPermission
    \/ MountFetchDone
    \/ CheckAndUpdateLocation
    \/ RequestLocationPermission
    \/ UpdateLocation
    \/ toggleDatePicker("start")
    \/ \E selectedDate \in Selections : onStartDateChange(selectedDate)
    \/ \E k \in 1 .. MaxCycles : CalendarsReturn(k)
    \/ \E k \in 1 .. MaxCycles : EventsReturn(k)
    \/ \E k \in 1 .. MaxCycles, i \in 1 .. MaxEvents : GeocodeReturn(k, i)
    \/ \E k \in 1 .. MaxCycles : Commit(k)

SpecMount == InitLoad /\ [][NextMount]_vars

\* the component with both permissions granted and one event in the store:
\* the mount effect (fetch cycle, then location update), the start picker
\* and the marker, all interleaved
InitApp ==
    /\ store = MarkerStore
    /\ InitView
    /\ calPerm = "granted"
    /\ locPerm = "granted"
    /\ platform = "ios"

NextApp ==
    \/ CheckAndUpdateEvents
    \/ MountFetchDone
    \/ CheckAndUpdateLocation
    \/ UpdateLocation
    \/ toggleDatePicker("start")
    \/ \E selectedDate \in Selections : onStartDateChange(selectedDate)
    \/ \E k \in 1 .. MaxCycles : CalendarsReturn(k)
    \/ \E k \in 1 .. MaxCycles : EventsReturn(k)
    \/ \E k \in 1 .. MaxCycles, i \in 1 .. MaxEvents : GeocodeReturn(k, i)
    \/ \E k \in 1 .. MaxCycles : Commit(k)
    \/ \E m \in 1 .. MaxEvents : onMarkerPress(m)
    \/ \E n \in 1 .. MaxPresses : CanOpenURLReturn(n)

SpecApp == InitApp /\ [][NextApp]_vars

\* the mount effect alone, from the load of the module on
NextEffect ==
    \/ ModuleLoad
    \/ CheckAndUpdateEvents
    \/ RequestCalendarPermission
    \/ MountFetchDone
    \/ CheckAndUpdateLocation
    \/ RequestLocationPermission
    \/ UpdateLocation
    \/ \E k \in 1 .. MaxCycles : CalendarsReturn(k)
    \/ \E k \in 1 .. MaxCycles : EventsReturn(k)
    \/ \E k \in 1 .. MaxCycles, i \in 1 .. MaxEvents : GeocodeReturn(k, i)
    \/ \E k \in 1 .. MaxCycles : Commit(k)

\* every platform call in flight returns or throws in the end: each step of
\* a fetch cycle is the continuation of an await on a platform promise
FairCycles ==
    \A k \in 1 .. MaxCycles :
        /\ WF_vars(CalendarsReturn(k))
        /\ WF_vars(EventsReturn(k))
        /\ WF_vars(Commit(k))
        /\ \A i \in 1 .. MaxEvents : WF_vars(GeocodeReturn(k, i))

\* the same for the steps of the mount effect
FairEffect ==
    /\ WF_vars(ModuleLoad)
    /\ WF_vars(CheckAndUpdateEvents)
    /\ WF_vars(RequestCalendarPermission)
    /\ WF_vars(MountFetchDone)
    /\ WF_vars(CheckAndUpdateLocation)
    /\ WF_vars(RequestLocationPermission)
    /\ WF_vars(UpdateLocation)

FairMount == InitLoad /\ [][NextEffect]_vars /\ FairEffect /\ FairCycles

\* the fetch cycles of the mount effect and of the start picker, over a store
\* of one event; the user is under no obligation to touch the picker
InitFetch == store = MarkerStore /\ InitView /\ CalendarOnly

NextFetch ==
    \/ CheckAndUpdateEvents
    \/ RequestCalendarPermission
    \/ MountFetchDone
    \/ toggleDatePicker("start")
    \/ \E selectedDate \in Selections : onStartDateChange(selectedDate)
    \/ \E k \in 1 .. MaxCycles : CalendarsReturn(k)
    \/ \E k \in 1 .. MaxCycles : EventsReturn(k)
    \/ \E k \in 1 .. MaxCycles, i \in 1 .. MaxEvents : GeocodeReturn(k, i)
    \/ \E k \in 1 .. MaxCycles : Commit(k)

FairFetch ==
    /\ InitFetch /\ [][NextFetch]_vars
    /\ WF_vars(CheckAndUpdateEvents)
    /\ WF_vars(RequestCalendarPermission)
    /\ WF_vars(MountFetchDone)
    /\ FairCycles

\* the markers of a store with an empty id, pressed on every platform
InitPress ==
    /\ store = PressStore
    /\ InitView
    /\ locPerm = "undetermined"
    /\ platform \in Platforms

NextPress ==
    \/ CheckAndUpdateEvents
    \/ RequestCalendarPermission
    \/ MountFetchDone
    \/ \E k \in 1 .. MaxCycles : CalendarsReturn(k)
    \/ \E k \in 1 .. MaxCycles : EventsReturn(k)
    \/ \E k \in 1 .. MaxCycles, i \in 1 .. MaxEvents : GeocodeReturn(k, i)
    \/ \E k \in 1 .. MaxCycles : Commit(k)
    \/ \E m \in 1 .. MaxEvents : onMarkerPress(m)
    \/ \E n \in 1 .. MaxPresses : CanOpenURLReturn(n)

SpecPress == InitPress /\ [][NextPress]_vars

\* ------------------------------------------------------------- claims
CycleIds == 1 .. Len(cycles)
Base(e) == [id |-> e.id, location |-> e.location, day |-> e.day]
SeqRange(q) == {q[i] : i \in 1 .. Len(q)}

\* q is a sub-sequence of r: the elements of q are elements of r at strictly
\* increasing positions
IsSubSeq(q, r) ==
    \E f \in [1 .. Len(q) -> 1 .. Len(r)] :
        /\ \A i \in 1 .. Len(q) : q[i] = r[f[i]]
        /\ \A i, j \in 1 .. Len(q) : i < j => f[i] < f[j]

\* C1: a fetch cycle started by selecting a start date queries the store with
\* the selected start date and the current end date; one started by selecting
\* an end date queries with the current start date and the selected end date.
C1_SelectionQueriesSelectedRange ==
    [][/\ \A d \in PickDays :
            onStartDateChange(Selected(d)) =>
                /\ cycles'[Len(cycles')].start = d
                /\ cycles'[Len(cycles')].end = endDate
       /\ \A d \in PickDays :
            onEndDateChange(Selected(d)) =>
                /\ cycles'[Len(cycles')].start = startDate
                /\ cycles'[Len(cycles')].end = d]_vars

\* C2: whenever no fetch cycle is in flight and the cycle that finished last
\* committed, every rendered marker is an event of the store within the
\* currently selected [startDate, endDate], and no two markers share an id.
C2_MarkersOfSelectedRange ==
    (InFlight = {} /\ lastDone # 0 /\ cycles[lastDone].pc = "committed") =>
        /\ \A m \in 1 .. Len(Markers) :
              /\ Base(Markers[m]) \in SeqRange(GetEvents(startDate, endDate))
              /\ Markers[m].geoLocation # NullGeo
        /\ \A m, n \in 1 .. Len(Markers) :
              m # n => Markers[m].id # Markers[n].id

\* C5: a fetch cycle (which issues the calendar-list query at once) exists only
\* while the calendar permission is granted.
C5_QueryOnlyAfterGranted ==
    cycles # <<>> => calPerm = "granted"

\* the enriched batch of the cycle that committed last
LastBatch == GeocodedEvents(cycles[lastCommit])

\* C3: after a cycle has committed, the rendered markers are a sub-sequence of
\* its enriched batch (so in batch order), every marker has a non-null
\* geoLocation and no two markers share an id.
C3_MarkersAreDedupedSubSeq ==
    lastCommit # 0 =>
        /\ IsSubSeq(Markers, LastBatch)
        /\ \A m \in 1 .. Len(Markers) : Markers[m].geoLocation # NullGeo
        /\ \A m, n \in 1 .. Len(Markers) :
              m # n => Markers[m].id # Markers[n].id

\* C3 witness: a committed batch of three events, two of them with the same id
\* and both geocoded, rendered as two markers
C3_Witness ==
    /\ lastCommit # 0
    /\ Len(LastBatch) = 3
    /\ Len(Markers) = 2
    /\ \E i, j \in 1 .. Len(LastBatch) :
          /\ i < j
          /\ LastBatch[i].id = LastBatch[j].id
          /\ LastBatch[i].geoLocation # NullGeo
          /\ LastBatch[j].geoLocation # NullGeo

CycleStep(k) ==
    \/ CalendarsReturn(k)
    \/ EventsReturn(k)
    \/ \E i \in 1 .. Len(cycles[k].events) : GeocodeReturn(k, i)
    \/ Commit(k)

\* C6: no cycle is cancelled (a cycle in flight can always take its next step,
\* and its record is changed by its own steps only, whatever else is triggered
\* or completes), and the event list is the filtered batch of the cycle that
\* committed last.
C6_NoCancelLastCommitWins ==
    /\ [](\A k \in InFlight : ENABLED CycleStep(k))
    /\ [](lastCommit # 0 =>
            calendarEvents = EventsWithLocation(LastBatch))
    /\ [][/\ Len(cycles') >= Len(cycles)
          /\ \A k \in CycleIds : cycles'[k] # cycles[k] => CycleStep(k)]_vars

\* C6 witness: two cycles overlapped and both committed, the one triggered
\* first committed last, and the event list is not what the other committed
C6_Witness ==
    /\ Len(cycles) >= 2
    /\ cycles[1].pc = "committed"
    /\ cycles[2].pc = "committed"
    /\ lastCommit = 1
    /\ calendarEvents # EventsWithLocation(GeocodedEvents(cycles[2]))

\* C7: a cycle writes the event list at most once, when it commits; the write
\* happens with every lookup of the cycle settled and stores exactly the
\* events of the cycle's enriched batch with a non-null geoLocation; nothing
\* else changes the event list, and the list never holds an unsettled lookup.
C7_AtomicCommit ==
    /\ [](/\ \A k \in CycleIds :
                /\ cycles[k].writes <= 1
                /\ cycles[k].writes = 1 <=> cycles[k].pc = "committed"
          /\ \A n \in 1 .. Len(calendarEvents) :
                calendarEvents[n].geoLocation # Pending)
    /\ [][(\/ calendarEvents' # calendarEvents
           \/ \E k \in CycleIds : cycles'[k].writes # cycles[k].writes) =>
          \E k \in CycleIds :
             /\ cycles[k].pc = "geocoding"
             /\ \A i \in 1 .. Len(cycles[k].events) :
                   cycles[k].outcome[i] # "pending"
             /\ cycles'[k].writes = cycles[k].writes + 1
             /\ \A h \in CycleIds \ {k} : cycles'[h] = cycles[h]
             /\ SeqRange(calendarEvents') =
                   {e \in SeqRange(GeocodedEvents(cycles[k])) :
                        e.geoLocation # NullGeo}
             /\ IsSubSeq(calendarEvents', GeocodedEvents(cycles[k]))]_vars

\* C7 witness: the second commit has replaced the list of the first: an event
\* the first cycle committed is gone
C7_Witness ==
    /\ Len(cycles) >= 2
    /\ cycles[1].pc = "committed"
    /\ cycles[2].pc = "committed"
    /\ lastCommit = 2
    /\ Len(cycles[2].events) >= 2
    /\ \E e \in SeqRange(EventsWithLocation(GeocodedEvents(cycles[1]))) :
          e \notin SeqRange(calendarEvents)

FetchAlerts == {n \in 1 .. Len(alerts) : alerts[n][1] = FetchAlertTitle}
Failed == {k \in CycleIds : cycles[k].pc = "failed"}

\* C8: a cycle whose calendar-list or events query failed has raised one
\* fetch-error alert, has written nothing, has issued no geocode lookup and no
\* store call after the failed one, and never changes again; the failing step
\* leaves the event list as it is and starts no cycle.
C8_FailedQueryAlertsOnce ==
    /\ [](/\ \A k \in Failed :
                /\ cycles[k].alerts = 1
                /\ cycles[k].writes = 0
                /\ cycles[k].lookups = <<>>
                /\ cycles[k].events = <<>>
                /\ cycles[k].storeCalls \in {1, 2}
          /\ Cardinality(FetchAlerts) = Cardinality(Failed))
    /\ [][\A k \in CycleIds :
            /\ cycles[k].pc = "failed" => cycles'[k] = cycles[k]
            /\ (cycles[k].pc # "failed" /\ cycles'[k].pc = "failed") =>
                  /\ cycles[k].pc \in {"calendars", "events"}
                  /\ cycles'[k].storeCalls = cycles[k].storeCalls
                  /\ cycles[k].pc = "calendars" => cycles[k].storeCalls = 1
                  /\ calendarEvents' = calendarEvents
                  /\ Len(cycles') = Len(cycles)
                  /\ Len(alerts') = Len(alerts) + 1
                  /\ alerts'[Len(alerts')][1] = FetchAlertTitle]_vars

\* C8 witness: a cycle failed on its events query after another had committed
\* events; the committed events are still the list
C8_Witness ==
    \E k \in Failed :
        /\ cycles[k].storeCalls = 2
        /\ lastCommit # 0
        /\ calendarEvents # <<>>
        /\ calendarEvents = EventsWithLocation(LastBatch)

\* C9: a failed lookup gives its event a null geoLocation and nothing else:
\* the cycle has not failed and has raised no alert, it commits once every
\* lookup has settled, and every event whose lookup found a coordinate is in
\* the committed list with the coordinate of its own address.
C9_FailedLookupNullsOneEvent ==
    \A k \in CycleIds :
        /\ \A i \in 1 .. Len(cycles[k].outcome) :
              cycles[k].outcome[i] = "failed" =>
                  /\ cycles[k].geo[i] = NullGeo
                  /\ cycles[k].pc \in {"geocoding", "committed"}
                  /\ cycles[k].alerts = 0
        /\ cycles[k].alerts = Cardinality({k} \cap Failed)
        /\ (cycles[k].pc = "geocoding" /\
            \A i \in 1 .. Len(cycles[k].outcome) :
                cycles[k].outcome[i] # "pending") => ENABLED Commit(k)
        /\ (cycles[k].pc = "committed" /\ lastCommit = k) =>
              \A j \in 1 .. Len(cycles[k].events) :
                  cycles[k].outcome[j] = "found" =>
                      Enrich(cycles[k].events[j],
                             Coord(cycles[k].events[j].location))
                          \in SeqRange(calendarEvents)

\* C9 witness: a committed batch with a failed lookup and two found ones at
\* different addresses
C9_Witness ==
    /\ lastCommit # 0
    /\ cycles[lastCommit].pc = "committed"
    /\ \E i, j, l \in 1 .. Len(LastBatch) :
          /\ cycles[lastCommit].outcome[i] = "failed"
          /\ cycles[lastCommit].outcome[j] = "found"
          /\ cycles[lastCommit].outcome[l] = "found"
          /\ LastBatch[j].location # LastBatch[l].location
          /\ LastBatch[j] \in SeqRange(calendarEvents)
          /\ LastBatch[l] \in SeqRange(calendarEvents)

\* C10: a cycle past its events query has issued one lookup for every event
\* of the batch whose location is a non-empty string and none for an event
\* whose location is absent or empty; such an event has a null geoLocation,
\* and no marker has an absent or empty location.
C10_OneLookupPerLocatedEvent ==
    /\ \A k \in CycleIds :
          IF cycles[k].pc \in {"geocoding", "committed"}
          THEN /\ Len(cycles[k].lookups) = Len(cycles[k].events)
               /\ \A i \in 1 .. Len(cycles[k].events) :
                     IF cycles[k].events[i].location \in {Absent, ""}
                     THEN /\ cycles[k].lookups[i] = 0
                          /\ cycles[k].outcome[i] = "none"
                          /\ cycles[k].geo[i] = NullGeo
                     ELSE /\ cycles[k].lookups[i] = 1
                          /\ cycles[k].outcome[i] # "none"
          ELSE cycles[k].lookups = <<>>
    /\ \A m \in 1 .. Len(Markers) : Markers[m].location \notin {Absent, ""}

\* C10 witness: a committed batch with two events of one id that each had a
\* lookup, one of them a marker, and an event without a location
C10_Witness ==
    /\ lastCommit # 0
    /\ \E i, j, l \in 1 .. Len(LastBatch) :
          /\ i # j
          /\ LastBatch[i].id = LastBatch[j].id
          /\ cycles[lastCommit].lookups[i] = 1
          /\ cycles[lastCommit].lookups[j] = 1
          /\ LastBatch[i] \in SeqRange(Markers)
          /\ LastBatch[l].location \in {Absent, ""}
          /\ cycles[lastCommit].lookups[l] = 0

\* ------------------------------------------------------------------
\* a change event of either picker
ChangeEvent(selectedDate) ==
    onStartDateChange(selectedDate) \/ onEndDateChange(selectedDate)

\* the cycles started by the mount effect
MountCycles == {k \in CycleIds : cycles[k].origin = "mount"}

\* the mount effect has found the calendar permission granted
MountGranted == mountPc \in {"fetch", "done"} /\ calPerm = "granted"

\* C11: a change event of a date picker starts a fetch cycle exactly when it
\* carries a selected date, then it starts one cycle and closes the picker;
\* the list of cycles grows only by one at a time, only at a selection or
\* when the mount effect finds the calendar permission granted, and the
\* mount effect starts one cycle when the permission is granted, none
\* otherwise.
C11_OneCyclePerSelection ==
    /\ [](Cardinality(MountCycles) = IF MountGranted THEN 1 ELSE 0)
    /\ [][/\ \A selectedDate \in Selections :
               ChangeEvent(selectedDate) =>
                   /\ ~showDatePicker'
                   /\ Len(cycles') =
                        Len(cycles) + IF selectedDate # Undefined THEN 1 ELSE 0
          /\ Len(cycles') # Len(cycles) =>
               /\ cycles' = Append(cycles, cycles'[Len(cycles')])
               /\ \/ ~MountGranted /\ MountGranted'
                  \/ \E d \in PickDays : ChangeEvent(Selected(d))]_vars

C11_Witness ==
    /\ Len(cycles) = 2
    /\ cycles[1].origin = "mount"
    /\ cycles[2].origin \in {"start", "end"}
    /\ ~showDatePicker

\* ------------------------------------------------------------------
\* C12: a change event without a selected date closes the picker and leaves
\* startDate, endDate, the event list, the region and the fetch cycles as
\* they are (and everything else of the component)
C12_DismissalOnlyClosesPicker ==
    [][ChangeEvent(Undefined) =>
          /\ ~showDatePicker'
          /\ UNCHANGED <<startDate, endDate, calendarEvents, region, cycles,
                         datePickerType, alerts, store, calPerm, mountPc,
                         locPerm, locPc, presses>>]_vars

C12_Witness ==
    /\ dismissed
    /\ ~showDatePicker
    /\ startDate # Now
    /\ calendarEvents # <<>>

\* ------------------------------------------------------------------
\* how many times an alert has been raised
CountOf(alert) == Cardinality({n \in 1 .. Len(alerts) : alerts[n] = alert})

\* the request of the mount effect for the calendar permission was denied
MountDenied == mountPc = "done" /\ calPerm = "denied"

\* the position of the mount effect in its calendar flow
MountRank ==
    [load |-> 0, aborted |-> 1, check |-> 1, request |-> 2, fetch |-> 3, done |-> 4]

\* C13: a denied calendar permission gives one calendar-permission alert
\* (and there is no such alert otherwise), no fetch cycle of the mount effect
\* and an empty event list; the calendar request is behind the mount effect
\* for good once it has returned (the flow only moves forward, so it is
\* issued at most once).  A denied location permission gives one
\* location-permission alert (none otherwise), after one request, with no
\* position query and the region of the first render.
C13_DenialAlertsOnceNoRetry ==
    /\ [](/\ CountOf(PermissionAlert) = IF MountDenied THEN 1 ELSE 0
          /\ MountDenied => MountCycles = {} /\ calendarEvents = <<>>
          /\ CountOf(LocationAlert) = IF locPc = "denied" THEN 1 ELSE 0
          /\ calls.locCheck <= 1 /\ calls.locRequest <= 1 /\ calls.position <= 1
          /\ locPc = "denied" =>
                /\ locPerm = "denied"
                /\ calls.locRequest = 1
                /\ calls.position = 0
                /\ region = InitialRegion)
    /\ [][/\ MountRank[mountPc'] >= MountRank[mountPc]
          /\ mountPc' = "request" /\ mountPc # "request" => mountPc = "check"
          /\ locPc = "denied" => locPc' = "denied"]_vars

C13_Witness ==
    /\ MountDenied
    /\ locPc = "denied"
    /\ Failed # {}
    /\ calendarEvents = <<>>

\* ------------------------------------------------------------------
\* the location flow has failed: the permission was denied, or the position
\* query rejected
LocationFailed == locPc \in {"denied", "rejected"}

\* the alerts that belong neither to the calendar permission, nor to a fetch
\* cycle, nor to a marker press
LocationFlowAlerts ==
    {n \in 1 .. Len(alerts) :
        /\ alerts[n] # PermissionAlert
        /\ alerts[n][1] # FetchAlertTitle
        /\ alerts[n] # CalendarAppAlert}

\* C14: when the location flow has failed, an alert other than the
\* calendar-permission alert has been raised for it and the region is the
\* one of the first render
C14_LocationFailureAlerts ==
    LocationFailed => LocationFlowAlerts # {} /\ region = InitialRegion

\* ------------------------------------------------------------------
\* C18: with the API key unset the module never gets past its load: the
\* component is not mounted, the geocoder is not initialised, no permission
\* check or request is issued, no fetch cycle (store query, geocode lookup)
\* is started, nothing is shown or alerted
C18_NoKeyNoStart ==
    ~apiKey =>
        /\ ~Mounted
        /\ ~geocoderInit
        /\ cycles = <<>>
        /\ calendarEvents = <<>>
        /\ locPc = "waiting"
        /\ calls = [locCheck |-> 0, locRequest |-> 0, position |-> 0]
        /\ alerts = <<>>
        /\ ~showDatePicker
        /\ presses = <<>>
        /\ region = InitialRegion

C18_Witness == ~apiKey /\ mountPc = "aborted"

\* ------------------------------------------------------------------
\* C19: the location permission check is issued only when the calendar flow
\* of the mount effect is over: the permission was denied, or the fetch
\* cycle of the mount effect has ended, committed with every lookup settled
\* or alerted
C19_LocationAfterCalendar ==
    calls.locCheck > 0 \/ locPc # "waiting" =>
        /\ mountPc = "done"
        /\ MountDenied \/ MountGranted
        /\ \A k \in MountCycles :
              \/ cycles[k].pc = "committed" /\ cycles[k].writes = 1
                 /\ AllSettled(cycles[k])
              \/ cycles[k].pc = "failed" /\ cycles[k].alerts = 1

C19_Witness ==
    /\ locPc = "check"
    /\ \E k \in MountCycles :
          cycles[k].pc = "committed" /\ Len(cycles[k].events) = 2
    /\ InFlight # {}

\* ------------------------------------------------------------------
\* the center of the region is a position of the device
Centered ==
    \E location \in DevicePositions :
        /\ region.latitude = location.latitude
        /\ region.longitude = location.longitude

\* C15: once the component is mounted the location permission check is
\* issued in the end, whether the calendar permission is granted or denied
\* and whether the fetch cycle of the mount effect commits or alerts; with
\* the location permission granted the position query is issued and
\* returns, and the position it returns is the center of the region
C15_LocationWhateverCalendar ==
    /\ Mounted ~> (locPc # "waiting" /\ calls.locCheck = 1)
    /\ (locPc # "waiting" /\ locPerm = "granted") ~>
           (calls.position = 1 /\ locPc \in {"done", "rejected"})
    /\ [](locPc = "done" => Centered)

C15_Witness ==
    /\ locPc = "done"
    /\ Centered
    /\ \E k \in MountCycles : cycles[k].pc = "failed"

\* ------------------------------------------------------------------
\* C20: every cycle started ends, committed or failed; a committed cycle
\* has written the event list once and raised no alert, a failed cycle has
\* raised one fetch-error alert and written nothing, a cycle in flight has
\* done neither
C20_CycleEndsInOneOutcome ==
    /\ \A k \in 1 .. MaxCycles :
          (k \in CycleIds) ~> (k \in CycleIds /\ Terminal(cycles[k]))
    /\ [](/\ \A k \in CycleIds :
               /\ cycles[k].pc = "committed" =>
                     cycles[k].writes = 1 /\ cycles[k].alerts = 0
               /\ cycles[k].pc = "failed" =>
                     cycles[k].writes = 0 /\ cycles[k].alerts = 1
               /\ ~Terminal(cycles[k]) =>
                     cycles[k].writes = 0 /\ cycles[k].alerts = 0
          /\ Cardinality(FetchAlerts) = Cardinality(Failed))

C20_Witness ==
    /\ Len(cycles) = 2
    /\ cycles[1].pc = "committed"
    /\ cycles[2].pc = "failed"

\* ------------------------------------------------------------------
\* C16: a step that changes the region is the return of the position query
\* of the mount effect; it sets the center to the position returned and
\* keeps both deltas.  No step of a fetch cycle, no change event of a picker
\* and no marker press changes the region.  The position is queried at most
\* once, and once the location flow has ended the region stays as it is.
C16_RegionOnlyByLocationUpdate ==
    /\ [](calls.position <= 1)
    /\ [][/\ region' # region =>
               /\ locPc = "position" /\ locPc' = "done"
               /\ Centered'
               /\ region'.latitudeDelta = region.latitudeDelta
               /\ region'.longitudeDelta = region.longitudeDelta
               /\ UNCHANGED <<calendarVars, presses, alerts>>
          /\ \/ \E k \in CycleIds : CycleStep(k)
             \/ \E selectedDate \in Selections : ChangeEvent(selectedDate)
             \/ presses' # presses
             => region' = region
          /\ locPc \in {"done", "rejected", "denied"} =>
               locPc' = locPc /\ region' = region]_vars

C16_Witness ==
    /\ locPc = "done"
    /\ Centered
    /\ region.latitudeDelta = InitialRegion.latitudeDelta
    /\ region.longitudeDelta = InitialRegion.longitudeDelta
    /\ Len(cycles) = 2
    /\ calendarEvents # <<>>
    /\ presses # <<>>

\* ------------------------------------------------------------------
\* the presses the availability query has answered with false
Unsupported == {n \in 1 .. Len(presses) : presses[n].supported = <<FALSE>>}

\* C17: a press opens a link only in the step in which the availability
\* query for the very same URL returns true, and then raises no alert; a
\* press whose query returns false raises one 'unable to open' alert and
\* opens nothing; a press on an event with an empty id queries nothing,
\* opens nothing and raises no alert
C17_OpenOnlyAfterAvailable ==
    /\ [](/\ \A n \in 1 .. Len(presses) :
               LET press == presses[n]
               IN /\ press.eventId = EmptyId =>
                        /\ press.pc = "ignored"
                        /\ press.queried = <<>>
                        /\ press.opened = <<>>
                        /\ press.alerts = 0
                  /\ press.opened # <<>> =>
                        /\ press.queried = <<press.url>>
                        /\ press.supported = <<TRUE>>
                        /\ press.opened = <<press.url>>
                  /\ press.alerts = IF press.supported = <<FALSE>> THEN 1 ELSE 0
                  /\ press.supported = <<FALSE>> => press.opened = <<>>
          /\ CountOf(CalendarAppAlert) = Cardinality(Unsupported))
    /\ [][\A n \in 1 .. Len(presses) :
             presses'[n].opened # presses[n].opened =>
                 /\ presses[n].pc = "query"
                 /\ presses[n].queried = presses'[n].opened
                 /\ presses'[n].supported = <<TRUE>>]_vars

C17_Witness ==
    \E n \in 1 .. Len(presses) :
        /\ presses[n].pc = "opened"
        /\ presses[n].eventId # EmptyId
        /\ presses[n].opened = <<EventUrl([id |-> presses[n].eventId])>>

====
